---- MODULE Spec2Model ----
(***************************************************************************)
(* afsklearn.preprocessing._encoders: _BaseEncoder and OneHotEncoder.      *)
(*                                                                         *)
(* One encoder instance is modelled.  Its constructor parameters           *)
(* (categories, drop, handle_unknown) are chosen at construction; its      *)
(* fitted attributes (categories_, drop_idx_) are written by fit.  Every   *)
(* public method is one action; the value it returns or the exception it   *)
(* raises is kept in `call` until the caller takes it (Return).            *)
(*                                                                         *)
(* Tables are numeric (float) arrays: cells are 1..MaxVal or NaN.  The     *)
(* encoder is built with sparse=True (the default), so transform returns   *)
(* the CSR matrix; toarray gives its dense form.                           *)
(* Python indices are kept 0-based wherever the code stores them           *)
(* (drop_idx_, CSR indices, column index in a message); TLA+ sequences are *)
(* 1-based, so categories_[i][d] of the code is categories_[i][d + 1].     *)
(***************************************************************************)
EXTENDS Integers, Sequences, FiniteSets, TLC

VARIABLES categories, drop, handle_unknown,
          attrs, categories_, drop_idx_, call

vars == <<categories, drop, handle_unknown,
          attrs, categories_, drop_idx_, call>>

(***************************************************************************)
(* Bounds of the model.                                                    *)
(***************************************************************************)
MaxVal == 2
MaxRows == 2
MaxCols == 2
MaxWidth == 3
MaxDropVal == 1
MaxSamples == 2
MaxEpsTenths == 11
MaxLen == 2

(***************************************************************************)
(* Values.                                                                 *)
(***************************************************************************)
NaN == 0
None == -1

Values == 0..MaxVal

is_scalar_nan(v) == v = NaN

\* numpy's elementwise == and != on floats: NaN equals nothing, itself included
np_eq(a, b) == ~is_scalar_nan(a) /\ ~is_scalar_nan(b) /\ a = b
np_ne(a, b) == ~np_eq(a, b)

Range(s) == {s[k] : k \in DOMAIN s}
Min(S) == CHOOSE x \in S : \A y \in S : x <= y
MinOfLen(a, b) == IF a < b THEN a ELSE b
Max(S) == CHOOSE x \in S : \A y \in S : x >= y

RECURSIVE SumSeq(_)
SumSeq(s) == IF s = <<>> THEN 0 ELSE s[1] + SumSeq(Tail(s))

\* sort order of floats: ascending, NaN after every number
SortKey(v) == IF is_scalar_nan(v) THEN MaxVal + 1 ELSE v

RECURSIVE Insert(_, _)
Insert(v, s) ==
    IF s = <<>> THEN <<v>>
    ELSE IF SortKey(v) < SortKey(s[1]) THEN <<v>> \o s
    ELSE <<s[1]>> \o Insert(v, Tail(s))

RECURSIVE af_sort(_)
af_sort(s) == IF s = <<>> THEN <<>> ELSE Insert(s[1], af_sort(Tail(s)))

\* every value in sort order, and the elements of a set in that order
SortedValues == [k \in 1..(MaxVal + 1) |-> IF k = MaxVal + 1 THEN NaN ELSE k]
InSet(S) == LET Test(v) == v \in S IN SelectSeq(SortedValues, Test)

(***************************************************************************)
(* Tables, matrices, exceptions.                                           *)
(***************************************************************************)
Tables == UNION {[1..r -> [1..c -> Values]] : r \in 1..MaxRows, c \in 1..MaxCols}

Matrices == UNION {[1..r -> [1..w -> 0..1]] : r \in 1..MaxRows, w \in 0..MaxWidth}

NoErr == [kind |-> "", msg |-> "", col |-> None, vals |-> {}, pairs |-> <<>>]
Err(k, m) == [kind |-> k, msg |-> m, col |-> None, vals |-> {}, pairs |-> <<>>]
ErrCol(k, m, c, v) == [kind |-> k, msg |-> m, col |-> c, vals |-> v, pairs |-> <<>>]
ErrPairs(k, m, p) == [kind |-> k, msg |-> m, col |-> None, vals |-> {}, pairs |-> p]

NoOut == [data |-> <<>>, indices |-> <<>>, indptr |-> <<>>, shape |-> <<0, 0>>]

\* input_features=None, and a list of names
NoFeatures == [isNone |-> TRUE, list |-> <<>>]
Features(l) == [isNone |-> FALSE, list |-> l]

\* np.asarray of a number (0-d) and of a list (1-d); v holds the elements
Scalar(x) == [ndim |-> 0, v |-> <<x>>]
Array(l) == [ndim |-> 1, v |-> l]
NoArray == [ndim |-> 0, v |-> <<>>]

NoCall == [op |-> "", X |-> <<>>, M |-> <<>>, out |-> NoOut,
           inv |-> <<>>, input_features |-> NoFeatures, names |-> <<>>,
           n_samples |-> NoArray, eps |-> NoArray, n_components |-> NoArray,
           err |-> NoErr]

(***************************************************************************)
(* The helpers of afsklearn._encode and afsklearn._validation.             *)
(***************************************************************************)
\* _unique: the distinct values of a column, ascending, NaN last
_unique(Xi) == InSet(Range(Xi))

\* _check_unknown: the values absent from the vocabulary, and the validity mask
_check_unknown(Xi, cats) ==
    [diff |-> Range(Xi) \ Range(cats),
     valid_mask |-> [r \in DOMAIN Xi |-> Xi[r] \in Range(cats)]]

\* _encode: the position (0-based) of each value within the vocabulary
_encode(Xi, uniques) ==
    [r \in DOMAIN Xi |-> Min({k \in DOMAIN uniques : uniques[k] = Xi[r]}) - 1]

\* check_is_fitted: the instance holds at least one attribute ending in "_"
check_is_fitted(self_attrs) == self_attrs # {}

(***************************************************************************)
(* _BaseEncoder                                                            *)
(***************************************************************************)
_get_feature(X, feature_idx) == [r \in 1..Len(X) |-> X[r][feature_idx]]

_check_X(X) ==
    [X_list |-> [i \in 1..Len(X[1]) |-> _get_feature(X, i)],
     n_samples |-> Len(X),
     n_features |-> Len(X[1])]

\* as UnsortedCats, with a comparison under which NaN differs from nothing
UnsortedCats_nan_equal(cats) ==
    LET sorted_cats == af_sort(cats)
        n == Len(cats)
        stop == IF is_scalar_nan(sorted_cats[n]) THEN n - 1 ELSE n
    IN \E k \in 1..stop :
          /\ ~is_scalar_nan(sorted_cats[k]) /\ ~is_scalar_nan(cats[k])
          /\ sorted_cats[k] # cats[k]

\* lines 80-88: the check of supplied numeric categories
UnsortedCats(cats) ==
    LET sorted_cats == af_sort(cats)
        n == Len(cats)
        stop == IF is_scalar_nan(sorted_cats[n]) THEN n - 1 ELSE n
    IN \/ \E k \in 1..stop : np_ne(sorted_cats[k], cats[k])
       \/ (is_scalar_nan(sorted_cats[n]) /\ ~is_scalar_nan(sorted_cats[n]))

\* as FitColumn, with the unknown check run whatever handle_unknown is
FitColumn_unknown_always(self_categories, hu, Xi, i) ==
    IF self_categories.kind = "auto"
    THEN [err |-> NoErr, cats |-> _unique(Xi)]
    ELSE LET cats == self_categories.lists[i]
             diff == _check_unknown(Xi, cats).diff
         IN IF UnsortedCats(cats)
            THEN [err |-> ErrCol("ValidationError", "unsorted categories", i - 1, {}),
                  cats |-> cats]
            ELSE IF diff # {}
            THEN [err |-> ErrCol("UnknownCategoryError", "during fit", i - 1, diff),
                  cats |-> cats]
            ELSE [err |-> NoErr, cats |-> cats]

\* lines 74-96: one iteration of the loop of _fit
FitColumn(self_categories, hu, Xi, i) ==
    IF self_categories.kind = "auto"
    THEN [err |-> NoErr, cats |-> _unique(Xi)]
    ELSE LET cats == self_categories.lists[i]
             diff == _check_unknown(Xi, cats).diff
         IN IF UnsortedCats(cats)
            THEN [err |-> ErrCol("ValidationError", "unsorted categories", i - 1, {}),
                  cats |-> cats]
            ELSE IF hu = "error" /\ diff # {}
            THEN [err |-> ErrCol("UnknownCategoryError", "during fit", i - 1, diff),
                  cats |-> cats]
            ELSE [err |-> NoErr, cats |-> cats]

\* lines 73-96: the loop of _fit from column i on; acc is self.categories_ so far
RECURSIVE FitLoop(_, _, _, _, _)
FitLoop(self_categories, hu, X, i, acc) ==
    IF i > Len(X[1]) THEN [err |-> NoErr, categories_ |-> acc]
    ELSE LET c == FitColumn(self_categories, hu, _get_feature(X, i), i)
         IN IF c.err.kind # ""
            THEN [err |-> c.err, categories_ |-> acc]
            ELSE FitLoop(self_categories, hu, X, i + 1, Append(acc, c.cats))

\* _fit: the exception raised (if any) and self.categories_ as the call leaves it
_fit(old_categories_, self_categories, X, hu) ==
    IF self_categories.kind # "auto" /\ Len(self_categories.lists) # Len(X[1])
    THEN [err |-> Err("ShapeError", "categories shape"),
          assigned |-> FALSE, categories_ |-> old_categories_]
    ELSE LET l == FitLoop(self_categories, hu, X, 1, <<>>)
         IN [err |-> l.err, assigned |-> TRUE, categories_ |-> l.categories_]

(***************************************************************************)
(* OneHotEncoder: fit                                                      *)
(***************************************************************************)
_validate_keywords_no_drop_check(hu, self_drop) ==
    IF hu \notin {"error", "ignore"}
    THEN Err("ValidationError", "handle_unknown")
    ELSE NoErr

_validate_keywords(hu, self_drop) ==
    IF hu \notin {"error", "ignore"}
    THEN Err("ValidationError", "handle_unknown")
    ELSE IF self_drop.kind # "None" /\ hu # "error"
    THEN Err("ValidationError", "drop with handle_unknown")
    ELSE NoErr

NoDropIdx == [isNone |-> TRUE, arr |-> <<>>]
DropArr(a) == [isNone |-> FALSE, arr |-> a]

\* lines 334-350: the index found for one column's drop value, or None
DropLookup(val, cat_list) ==
    IF ~is_scalar_nan(val)
    THEN LET drop_idx == {k \in DOMAIN cat_list : np_eq(cat_list[k], val)}
         IN IF drop_idx # {} THEN Min(drop_idx) - 1 ELSE None
    ELSE LET nans == {k \in DOMAIN cat_list : is_scalar_nan(cat_list[k])}
         IN IF nans # {} THEN Min(nans) - 1 ELSE None

\* as MissingDrops, but the search stops at the first pair not found
MissingDrops_first_only(drop_array, cats_, i) ==
    LET missing == {k \in i..MinOfLen(Len(drop_array), Len(cats_)) :
                      DropLookup(drop_array[k], cats_[k]) = None}
    IN IF missing = {} THEN <<>>
       ELSE << <<Min(missing) - 1, drop_array[Min(missing)]>> >>

\* lines 332-351: the (col_idx, val) pairs not found, in column order
RECURSIVE MissingDrops(_, _, _)
MissingDrops(drop_array, cats_, i) ==
    IF i > Len(drop_array) \/ i > Len(cats_) THEN <<>>
    ELSE (IF DropLookup(drop_array[i], cats_[i]) = None
          THEN << <<i - 1, drop_array[i]>> >> ELSE <<>>)
         \o MissingDrops(drop_array, cats_, i + 1)

_compute_drop_idx(self_drop, cats_) ==
    CASE self_drop.kind = "None" ->
            [err |-> NoErr, drop_idx |-> NoDropIdx]
      [] self_drop.kind = "first" ->
            [err |-> NoErr, drop_idx |-> DropArr([i \in 1..Len(cats_) |-> 0])]
      [] self_drop.kind = "if_binary" ->
            [err |-> NoErr,
             drop_idx |-> DropArr([i \in 1..Len(cats_) |->
                                     IF Len(cats_[i]) = 2 THEN 0 ELSE None])]
      [] self_drop.kind = "array" ->
            LET drop_array == self_drop.arr
                missing_drops == MissingDrops(drop_array, cats_, 1)
            IN IF Len(drop_array) # Len(cats_)
               THEN [err |-> Err("ValidationError", "drop length"),
                     drop_idx |-> NoDropIdx]
               ELSE IF missing_drops # <<>>
               THEN [err |-> ErrPairs("ValidationError", "missing drops", missing_drops),
                     drop_idx |-> NoDropIdx]
               ELSE [err |-> NoErr,
                     drop_idx |-> DropArr([i \in 1..Len(cats_) |->
                                             DropLookup(drop_array[i], cats_[i])])]
      [] OTHER ->
            [err |-> Err("ValidationError", "wrong drop"), drop_idx |-> NoDropIdx]

\* fit: the exception raised (if any) and the attributes as the call leaves them
fit(X) ==
    LET v == _validate_keywords(handle_unknown, drop)
        f == _fit(categories_, categories, X, handle_unknown)
        d == _compute_drop_idx(drop, f.categories_)
    IN IF v.kind # ""
       THEN [err |-> v, attrs |-> attrs,
             categories_ |-> categories_, drop_idx_ |-> drop_idx_]
       ELSE IF f.err.kind # ""
       THEN [err |-> f.err,
             attrs |-> IF f.assigned THEN attrs \cup {"categories_"} ELSE attrs,
             categories_ |-> f.categories_, drop_idx_ |-> drop_idx_]
       ELSE IF d.err.kind # ""
       THEN [err |-> d.err, attrs |-> attrs \cup {"categories_"},
             categories_ |-> f.categories_, drop_idx_ |-> drop_idx_]
       ELSE [err |-> NoErr, attrs |-> {"categories_", "drop_idx_"},
             categories_ |-> f.categories_, drop_idx_ |-> d.drop_idx]

(***************************************************************************)
(* _BaseEncoder._transform                                                 *)
(***************************************************************************)
\* as TransformColumn, but X_mask[:, i] = valid_mask is left out
TransformColumn_unmasked(cats_, X, i) ==
    LET Xi == _get_feature(X, i)
        valid_mask == _check_unknown(Xi, cats_[i]).valid_mask
        Xi_set == [r \in DOMAIN Xi |-> IF valid_mask[r] THEN Xi[r] ELSE cats_[i][1]]
    IN [codes |-> _encode(Xi_set, cats_[i]), mask |-> [r \in DOMAIN Xi |-> TRUE]]

\* lines 113-146: the codes and the mask of column i
TransformColumn(cats_, X, i) ==
    LET Xi == _get_feature(X, i)
        valid_mask == _check_unknown(Xi, cats_[i]).valid_mask
        \* line 142: Xi[~valid_mask] = self.categories_[i][0]
        Xi_set == [r \in DOMAIN Xi |-> IF valid_mask[r] THEN Xi[r] ELSE cats_[i][1]]
    IN [codes |-> _encode(Xi_set, cats_[i]), mask |-> valid_mask]

\* as _transform, but the unknown values are looked for before the shapes are compared
_transform_unknown_first(cats_, X, hu) ==
    LET n_samples == Len(X)
        n_features == Len(X[1])
        n_common == MinOfLen(n_features, Len(cats_))
        diff(i) == _check_unknown(_get_feature(X, i), cats_[i]).diff
        unknown_cols == {i \in 1..n_common : diff(i) # {}}
    IN IF hu = "error" /\ unknown_cols # {}
       THEN [err |-> ErrCol("UnknownCategoryError", "during transform",
                            Min(unknown_cols) - 1, diff(Min(unknown_cols))),
             X_int |-> <<>>, X_mask |-> <<>>]
       ELSE IF n_features # Len(cats_)
       THEN [err |-> Err("ShapeError", "number of features"),
             X_int |-> <<>>, X_mask |-> <<>>]
       ELSE LET cols == [i \in 1..n_features |-> TransformColumn(cats_, X, i)]
            IN [err |-> NoErr,
                X_int |-> [r \in 1..n_samples |->
                             [i \in 1..n_features |-> cols[i].codes[r]]],
                X_mask |-> [r \in 1..n_samples |->
                             [i \in 1..n_features |-> cols[i].mask[r]]]]

_transform(cats_, X, hu) ==
    LET n_samples == Len(X)
        n_features == Len(X[1])
        diff(i) == _check_unknown(_get_feature(X, i), cats_[i]).diff
        unknown_cols == {i \in 1..n_features : diff(i) # {}}
    IN IF n_features # Len(cats_)
       THEN [err |-> Err("ShapeError", "number of features"),
             X_int |-> <<>>, X_mask |-> <<>>]
       ELSE IF hu = "error" /\ unknown_cols # {}
       THEN [err |-> ErrCol("UnknownCategoryError", "during transform",
                            Min(unknown_cols) - 1, diff(Min(unknown_cols))),
             X_int |-> <<>>, X_mask |-> <<>>]
       ELSE LET cols == [i \in 1..n_features |-> TransformColumn(cats_, X, i)]
            IN [err |-> NoErr,
                X_int |-> [r \in 1..n_samples |->
                             [i \in 1..n_features |-> cols[i].codes[r]]],
                X_mask |-> [r \in 1..n_samples |->
                             [i \in 1..n_features |-> cols[i].mask[r]]]]

(***************************************************************************)
(* OneHotEncoder.transform                                                 *)
(***************************************************************************)
\* as n_values, but a column with a single category keeps it
n_values_keep_single(cats_, didx) ==
    [i \in 1..Len(cats_) |->
        IF didx.isNone \/ didx.arr[i] = None \/ Len(cats_[i]) = 1
        THEN Len(cats_[i]) ELSE Len(cats_[i]) - 1]

\* lines 429-439, 445: the output width of every column
n_values(cats_, didx) ==
    [i \in 1..Len(cats_) |->
        IF didx.isNone \/ didx.arr[i] = None
        THEN Len(cats_[i]) ELSE Len(cats_[i]) - 1]

\* line 428: keep_cells = X_int != to_drop, to_drop still holding its None entries
keep_cell(code, d) == d = None \/ code # d

\* as drop_code, but a None entry is not replaced by n_cats and compares as 0
drop_code_none_as_zero(code, d, n_cats) ==
    LET to_drop == IF d = None THEN 0 ELSE d
    IN IF code > to_drop THEN code - 1 ELSE code

\* as drop_code, without the decrement
drop_code_no_decrement(code, d, n_cats) == code

\* lines 434-442: None becomes n_cats, then X_int[X_int > to_drop] -= 1
drop_code(code, d, n_cats) ==
    LET to_drop == IF d = None THEN n_cats ELSE d
    IN IF code > to_drop THEN code - 1 ELSE code

\* np.cumsum([0] + n_values)
feature_indices(nv) == [k \in 1..(Len(nv) + 1) |-> SumSeq(SubSeq(nv, 1, k - 1))]

\* (X_int + feature_indices[:-1]).ravel()[mask]
RECURSIVE RowIndices(_, _, _, _)
RowIndices(int_row, mask_row, fi, i) ==
    IF i > Len(int_row) THEN <<>>
    ELSE (IF mask_row[i] THEN <<int_row[i] + fi[i]>> ELSE <<>>)
         \o RowIndices(int_row, mask_row, fi, i + 1)

RECURSIVE AllIndices(_, _, _, _)
AllIndices(X_int, X_mask, fi, r) ==
    IF r > Len(X_int) THEN <<>>
    ELSE RowIndices(X_int[r], X_mask[r], fi, 1) \o AllIndices(X_int, X_mask, fi, r + 1)

RowCount(mask_row) == Cardinality({i \in DOMAIN mask_row : mask_row[i]})

\* as indptr_of, without the cumulative sum of line 454
indptr_of_no_cumsum(X_mask) ==
    [k \in 1..(Len(X_mask) + 1) |-> IF k = 1 THEN 0 ELSE RowCount(X_mask[k - 1])]

\* lines 451-454: indptr[0] = 0, then the cumulative sum of the row counts
indptr_of(X_mask) ==
    [k \in 1..(Len(X_mask) + 1) |->
        SumSeq([r \in 1..(k - 1) |-> RowCount(X_mask[r])])]

\* scipy's csr_matrix((data, indices, indptr), shape): rejects an index outside
\* the declared column count
csr_matrix(data, indices, indptr, shape) ==
    IF \E k \in DOMAIN indices : indices[k] < 0 \/ indices[k] >= shape[2]
    THEN [err |-> Err("ValueError", "column index exceeds matrix dimensions"),
          out |-> NoOut]
    ELSE [err |-> NoErr,
          out |-> [data |-> data, indices |-> indices, indptr |-> indptr,
                   shape |-> shape]]

\* lines 447-459
assemble(X_int, X_mask, nv) ==
    LET fi == feature_indices(nv)
        indices == AllIndices(X_int, X_mask, fi, 1)
        indptr == indptr_of(X_mask)
        data == [k \in 1..indptr[Len(indptr)] |-> 1]
    IN csr_matrix(data, indices, indptr, <<Len(X_int), fi[Len(fi)]>>)

NoResult == [err |-> NoErr, out |-> NoOut]
Raise(e) == [err |-> e, out |-> NoOut]

transform(self_attrs, cats_, didx, hu, X) ==
    LET t == _transform(cats_, X, hu)
        n_samples == Len(X)
        n_features == Len(X[1])
    IN IF ~check_is_fitted(self_attrs)
       THEN Raise(Err("NotFittedError", "transform"))
       ELSE IF t.err.kind # "" THEN Raise(t.err)
       ELSE IF "drop_idx_" \notin self_attrs
       THEN Raise(Err("AttributeError", "drop_idx_"))
       ELSE IF didx.isNone
       THEN assemble(t.X_int, t.X_mask, n_values(cats_, didx))
       ELSE IF Len(didx.arr) # n_features
       THEN Raise(Err("IndexError", "drop_idx_ length"))
       ELSE LET X_int == [r \in 1..n_samples |-> [i \in 1..n_features |->
                            drop_code(t.X_int[r][i], didx.arr[i], Len(cats_[i]))]]
                X_mask == [r \in 1..n_samples |-> [i \in 1..n_features |->
                            t.X_mask[r][i] /\ keep_cell(t.X_int[r][i], didx.arr[i])]]
            IN assemble(X_int, X_mask, n_values(cats_, didx))

\* as to_drop_copy, without the copy: to_drop is self.drop_idx_ itself
to_drop_no_copy(didx) == [shared |-> TRUE, arr |-> didx.arr]

\* line 425: to_drop = self.drop_idx_.copy(), an array of its own
to_drop_copy(didx) == [shared |-> FALSE, arr |-> didx.arr]

\* lines 430-436: to_drop[i] = n_cats where to_drop[i] is None
to_drop_filled(cats_, to_drop) ==
    [to_drop EXCEPT !.arr =
        [i \in DOMAIN to_drop.arr |->
            IF i <= Len(cats_) /\ to_drop.arr[i] = None
            THEN Len(cats_[i]) ELSE to_drop.arr[i]]]

\* self.drop_idx_ when transform is left, by return or by raise: lines 425-436
\* write to to_drop only
drop_idx_after_transform(self_attrs, cats_, didx, hu, X) ==
    IF \/ ~check_is_fitted(self_attrs)
       \/ _transform(cats_, X, hu).err.kind # ""
       \/ "drop_idx_" \notin self_attrs
       \/ didx.isNone
    THEN didx
    ELSE LET to_drop == to_drop_filled(cats_, to_drop_copy(didx))
         IN IF to_drop.shared THEN [isNone |-> FALSE, arr |-> to_drop.arr]
            ELSE didx

\* out.toarray()
toarray(out) ==
    [r \in 1..out.shape[1] |-> [c \in 1..out.shape[2] |->
        SumSeq([k \in 1..(out.indptr[r + 1] - out.indptr[r]) |->
                  IF out.indices[out.indptr[r] + k] = c - 1
                  THEN out.data[out.indptr[r] + k] ELSE 0])]]

(***************************************************************************)
(* OneHotEncoder.inverse_transform                                         *)
(***************************************************************************)
\* check_array(X, accept_sparse='csr'): the matrix as a rectangular 2-D array
check_array(M) == M

\* as n_transformed_features, but every column counts len(cats) - 1 once drop_idx_ is set
n_transformed_features_all_dropped(cats_, didx) ==
    IF didx.isNone
    THEN SumSeq([i \in 1..Len(cats_) |-> Len(cats_[i])])
    ELSE SumSeq([i \in 1..MinOfLen(Len(cats_), Len(didx.arr)) |-> Len(cats_[i]) - 1])

\* lines 485-492; zip stops at the shorter of categories_ and drop_idx_
n_transformed_features(cats_, didx) ==
    IF didx.isNone
    THEN SumSeq([i \in 1..Len(cats_) |-> Len(cats_[i])])
    ELSE SumSeq([i \in 1..MinOfLen(Len(cats_), Len(didx.arr)) |->
                   IF didx.arr[i] # None THEN Len(cats_[i]) - 1 ELSE Len(cats_[i])])

\* np.delete(arr, d): arr without its element at 0-based position d
np_delete(arr, d) == [k \in 1..(Len(arr) - 1) |-> IF k <= d THEN arr[k] ELSE arr[k + 1]]

argmin(row) == Min({k \in DOMAIN row : \A l \in DOMAIN row : row[k] <= row[l]}) - 1

\* argmax of a row: the 0-based position of the first maximal entry
argmax(row) == Min({k \in DOMAIN row : \A l \in DOMAIN row : row[l] <= row[k]}) - 1

\* lines 541-543 when drop_idx_[i] is None: categories_[i][None] has shape
\* (1, n_cats) and is broadcast into the all-zero rows
RowRank(zero, r) == Cardinality({q \in 1..r : zero[q]})

\* as InverseColumn, without lines 541-543 for a column with a drop index: the
\* all-zero rows keep the category their argmax selected
InverseColumn_no_drop_fill(cats_, didx, hu, M, i, j) ==
    LET n_samples == Len(M)
        d == IF didx.isNone THEN None ELSE didx.arr[i]
        cats == IF d = None THEN cats_[i] ELSE np_delete(cats_[i], d)
        n_categories == Len(cats)
        sub == [r \in 1..n_samples |-> SubSeq(M[r], j + 1, j + n_categories)]
        zero == [r \in 1..n_samples |-> SumSeq(sub[r]) = 0]
        n_zero == Cardinality({r \in 1..n_samples : zero[r]})
        labelled == [r \in 1..n_samples |-> cats[argmax(sub[r]) + 1]]
        none == [r \in 1..n_samples |-> FALSE]
    IN IF ~didx.isNone /\ i > Len(didx.arr)
       THEN [err |-> Err("IndexError", "drop_idx_ index"), col |-> <<>>,
             unknown |-> <<>>, width |-> 0]
       ELSE IF d # None /\ d >= Len(cats_[i])
       THEN [err |-> Err("IndexError", "delete out of bounds"), col |-> <<>>,
             unknown |-> <<>>, width |-> 0]
       ELSE IF n_categories = 0
       THEN [err |-> NoErr, col |-> [r \in 1..n_samples |-> cats_[i][d + 1]],
             unknown |-> none, width |-> 0]
       ELSE IF hu = "ignore"
       THEN [err |-> NoErr, col |-> labelled, unknown |-> zero,
             width |-> n_categories]
       ELSE IF n_zero = 0
       THEN [err |-> NoErr, col |-> labelled, unknown |-> none,
             width |-> n_categories]
       ELSE IF didx.isNone
       THEN [err |-> ErrCol("InversionError", "all zeros", i - 1, {}),
             col |-> <<>>, unknown |-> <<>>, width |-> 0]
       ELSE IF d # None
       THEN [err |-> NoErr,
             col |-> labelled,
             unknown |-> none, width |-> n_categories]
       ELSE IF Len(cats_[i]) = 1 \/ Len(cats_[i]) = n_zero
       THEN [err |-> NoErr,
             col |-> [r \in 1..n_samples |->
                        IF zero[r]
                        THEN (IF Len(cats_[i]) = 1 THEN cats_[i][1]
                              ELSE cats_[i][RowRank(zero, r)])
                        ELSE labelled[r]],
             unknown |-> none, width |-> n_categories]
       ELSE [err |-> Err("ValueError", "shape mismatch in assignment"),
             col |-> <<>>, unknown |-> <<>>, width |-> 0]

\* lines 508-545: one iteration of the loop; j is the offset reached so far
InverseColumn(cats_, didx, hu, M, i, j) ==
    LET n_samples == Len(M)
        d == IF didx.isNone THEN None ELSE didx.arr[i]
        cats == IF d = None THEN cats_[i] ELSE np_delete(cats_[i], d)
        n_categories == Len(cats)
        sub == [r \in 1..n_samples |-> SubSeq(M[r], j + 1, j + n_categories)]
        zero == [r \in 1..n_samples |-> SumSeq(sub[r]) = 0]
        n_zero == Cardinality({r \in 1..n_samples : zero[r]})
        labelled == [r \in 1..n_samples |-> cats[argmax(sub[r]) + 1]]
        none == [r \in 1..n_samples |-> FALSE]
    IN IF ~didx.isNone /\ i > Len(didx.arr)
       THEN [err |-> Err("IndexError", "drop_idx_ index"), col |-> <<>>,
             unknown |-> <<>>, width |-> 0]
       ELSE IF d # None /\ d >= Len(cats_[i])
       THEN [err |-> Err("IndexError", "delete out of bounds"), col |-> <<>>,
             unknown |-> <<>>, width |-> 0]
       ELSE IF n_categories = 0
       THEN [err |-> NoErr, col |-> [r \in 1..n_samples |-> cats_[i][d + 1]],
             unknown |-> none, width |-> 0]
       ELSE IF hu = "ignore"
       THEN [err |-> NoErr, col |-> labelled, unknown |-> zero,
             width |-> n_categories]
       ELSE IF n_zero = 0
       THEN [err |-> NoErr, col |-> labelled, unknown |-> none,
             width |-> n_categories]
       ELSE IF didx.isNone
       THEN [err |-> ErrCol("InversionError", "all zeros", i - 1, {}),
             col |-> <<>>, unknown |-> <<>>, width |-> 0]
       ELSE IF d # None
       THEN [err |-> NoErr,
             col |-> [r \in 1..n_samples |->
                        IF zero[r] THEN cats_[i][d + 1] ELSE labelled[r]],
             unknown |-> none, width |-> n_categories]
       ELSE IF Len(cats_[i]) = 1 \/ Len(cats_[i]) = n_zero
       THEN [err |-> NoErr,
             col |-> [r \in 1..n_samples |->
                        IF zero[r]
                        THEN (IF Len(cats_[i]) = 1 THEN cats_[i][1]
                              ELSE cats_[i][RowRank(zero, r)])
                        ELSE labelled[r]],
             unknown |-> none, width |-> n_categories]
       ELSE [err |-> Err("ValueError", "shape mismatch in assignment"),
             col |-> <<>>, unknown |-> <<>>, width |-> 0]

\* lines 504-545: the loop from column i on
RECURSIVE InverseLoop(_, _, _, _, _, _, _, _)
InverseLoop(cats_, didx, hu, M, i, j, cols, found_unknown) ==
    IF i > Len(cats_)
    THEN [err |-> NoErr, cols |-> cols, found_unknown |-> found_unknown]
    ELSE LET c == InverseColumn(cats_, didx, hu, M, i, j)
         IN IF c.err.kind # ""
            THEN [err |-> c.err, cols |-> <<>>, found_unknown |-> <<>>]
            ELSE InverseLoop(cats_, didx, hu, M, i + 1, j + c.width,
                             Append(cols, c.col), Append(found_unknown, c.unknown))

NoInverse == [err |-> NoErr, inv |-> <<>>]
RaiseInv(e) == [err |-> e, inv |-> <<>>]

\* as inverse_transform, without lines 549-554: the cells found unknown keep
\* the category their argmax selected
inverse_transform_unknown_kept(self_attrs, cats_, didx, hu, X) ==
    LET M == check_array(X)
        l == InverseLoop(cats_, didx, hu, M, 1, 0, <<>>, <<>>)
    IN IF ~check_is_fitted(self_attrs)
       THEN RaiseInv(Err("NotFittedError", "inverse_transform"))
       ELSE IF "drop_idx_" \notin self_attrs
       THEN RaiseInv(Err("AttributeError", "drop_idx_"))
       ELSE IF Len(M[1]) # n_transformed_features(cats_, didx)
       THEN RaiseInv(Err("ShapeError", "shape of the passed X"))
       ELSE IF l.err.kind # "" THEN RaiseInv(l.err)
       ELSE [err |-> NoErr,
             inv |-> [r \in 1..Len(M) |-> [i \in 1..Len(cats_) |-> l.cols[i][r]]]]

inverse_transform(self_attrs, cats_, didx, hu, X) ==
    LET M == check_array(X)
        n_samples == Len(M)
        n_features == Len(cats_)
        l == InverseLoop(cats_, didx, hu, M, 1, 0, <<>>, <<>>)
    IN IF ~check_is_fitted(self_attrs)
       THEN RaiseInv(Err("NotFittedError", "inverse_transform"))
       ELSE IF "drop_idx_" \notin self_attrs
       THEN RaiseInv(Err("AttributeError", "drop_idx_"))
       ELSE IF Len(M[1]) # n_transformed_features(cats_, didx)
       THEN RaiseInv(Err("ShapeError", "shape of the passed X"))
       ELSE IF l.err.kind # "" THEN RaiseInv(l.err)
       ELSE [err |-> NoErr,
             \* lines 549-554: the cells found unknown become None
             inv |-> [r \in 1..n_samples |-> [i \in 1..n_features |->
                        IF l.found_unknown[i][r] THEN None ELSE l.cols[i][r]]]]

(***************************************************************************)
(* OneHotEncoder.get_feature_names                                         *)
(***************************************************************************)
\* str(t) of a float category: 1.0 prints as "1.0", nan as "nan"
str(t) == IF is_scalar_nan(t) THEN "nan" ELSE ToString(t) \o ".0"

\* line 574: ['x%d' % i for i in range(len(cats))]
default_features(n) == [i \in 1..n |-> "x" \o ToString(i - 1)]

\* names.pop(d): the list without its element at 0-based position d
pop(names, d) == [k \in 1..(Len(names) - 1) |-> IF k <= d THEN names[k] ELSE names[k + 1]]

\* as ColumnNames, popping the first name whatever the drop index is
ColumnNames_pop_first(cats_, didx, input_features, i) ==
    LET names == [k \in DOMAIN cats_[i] |-> input_features[i] \o "_" \o str(cats_[i][k])]
    IN IF didx.isNone
       THEN [err |-> NoErr, names |-> names]
       ELSE IF i > Len(didx.arr)
       THEN [err |-> Err("IndexError", "drop_idx_ index"), names |-> <<>>]
       ELSE IF didx.arr[i] = None
       THEN [err |-> NoErr, names |-> names]
       ELSE IF didx.arr[i] >= Len(names)
       THEN [err |-> Err("IndexError", "pop index out of range"), names |-> <<>>]
       ELSE [err |-> NoErr, names |-> pop(names, 0)]

\* lines 583-586: the names of input column i
ColumnNames(cats_, didx, input_features, i) ==
    LET names == [k \in DOMAIN cats_[i] |-> input_features[i] \o "_" \o str(cats_[i][k])]
    IN IF didx.isNone
       THEN [err |-> NoErr, names |-> names]
       ELSE IF i > Len(didx.arr)
       THEN [err |-> Err("IndexError", "drop_idx_ index"), names |-> <<>>]
       ELSE IF didx.arr[i] = None
       THEN [err |-> NoErr, names |-> names]
       ELSE IF didx.arr[i] >= Len(names)
       THEN [err |-> Err("IndexError", "pop index out of range"), names |-> <<>>]
       ELSE [err |-> NoErr, names |-> pop(names, didx.arr[i])]

\* lines 581-587: the loop from column i on
RECURSIVE NamesLoop(_, _, _, _, _, _)
NamesLoop(self_attrs, cats_, didx, input_features, i, feature_names) ==
    IF i > Len(cats_)
    THEN [err |-> NoErr, names |-> feature_names]
    ELSE IF "drop_idx_" \notin self_attrs
    THEN [err |-> Err("AttributeError", "drop_idx_"), names |-> <<>>]
    ELSE LET c == ColumnNames(cats_, didx, input_features, i)
         IN IF c.err.kind # "" THEN c
            ELSE NamesLoop(self_attrs, cats_, didx, input_features, i + 1,
                           feature_names \o c.names)

get_feature_names(self_attrs, cats_, didx, input_features) ==
    IF ~check_is_fitted(self_attrs)
    THEN [err |-> Err("NotFittedError", "get_feature_names"), names |-> <<>>]
    ELSE IF input_features.isNone
    THEN NamesLoop(self_attrs, cats_, didx, default_features(Len(cats_)), 1, <<>>)
    ELSE IF Len(input_features.list) # Len(cats_)
    THEN [err |-> Err("ValueError", "input_features length"), names |-> <<>>]
    ELSE NamesLoop(self_attrs, cats_, didx, input_features.list, 1, <<>>)

(***************************************************************************)
(* Construction.                                                           *)
(***************************************************************************)
\* the lists a caller supplies: sorted ones, one out of order, one sorted but
\* for its NaN, one with a repeated value
CatLists == {<<1>>, <<1, 2>>, <<1, 2, NaN>>, <<2, 1>>, <<NaN, 1>>, <<1, 1>>}

CategoriesParams ==
    {[kind |-> "auto", lists |-> <<>>]}
    \cup {[kind |-> "list", lists |-> l] :
            l \in UNION {[1..c -> CatLists] : c \in 1..MaxCols}}

DropParams ==
    {[kind |-> k, arr |-> <<>>] : k \in {"None", "first", "if_binary"}}
    \cup {[kind |-> "array", arr |-> a] :
            a \in UNION {[1..c -> 0..MaxDropVal] : c \in 1..MaxCols}}

Init ==
    /\ categories \in CategoriesParams
    /\ drop \in DropParams
    /\ handle_unknown \in {"error", "ignore"}
    /\ attrs = {}
    /\ categories_ = <<>>
    /\ drop_idx_ = NoDropIdx
    /\ call = NoCall

Params == <<categories, drop, handle_unknown>>

(***************************************************************************)
(* Actions: one per public method, and the caller taking the result.       *)
(***************************************************************************)
Fit ==
    /\ call.op = ""
    /\ \E X \in Tables :
         LET r == fit(X)
         IN /\ attrs' = r.attrs
            /\ categories_' = r.categories_
            /\ drop_idx_' = r.drop_idx_
            /\ call' = [NoCall EXCEPT !.op = "fit", !.X = X, !.err = r.err]
    /\ UNCHANGED Params

Return ==
    /\ call.op # ""
    /\ call' = NoCall
    /\ UNCHANGED <<Params, attrs, categories_, drop_idx_>>

FitTransform ==
    /\ call.op = ""
    /\ \E X \in Tables :
         LET r == fit(X)
             t == transform(r.attrs, r.categories_, r.drop_idx_, handle_unknown, X)
         IN /\ attrs' = r.attrs
            /\ categories_' = r.categories_
            /\ drop_idx_' = IF r.err.kind # "" THEN r.drop_idx_
                            ELSE drop_idx_after_transform(r.attrs, r.categories_,
                                     r.drop_idx_, handle_unknown, X)
            /\ call' = IF r.err.kind # ""
                        THEN [NoCall EXCEPT !.op = "fit_transform", !.X = X,
                                            !.err = r.err]
                        ELSE [NoCall EXCEPT !.op = "fit_transform", !.X = X,
                                            !.out = t.out, !.err = t.err]
    /\ UNCHANGED Params

Transform ==
    /\ call.op = ""
    /\ \E X \in Tables :
         LET t == transform(attrs, categories_, drop_idx_, handle_unknown, X)
         IN /\ call' = [NoCall EXCEPT !.op = "transform", !.X = X,
                                      !.out = t.out, !.err = t.err]
            /\ drop_idx_' = drop_idx_after_transform(attrs, categories_, drop_idx_,
                                                     handle_unknown, X)
    /\ UNCHANGED <<Params, attrs, categories_>>

\* inverse_transform of a matrix the caller built
InverseTransform ==
    /\ call.op = ""
    /\ \E M \in Matrices :
         LET v == inverse_transform(attrs, categories_, drop_idx_, handle_unknown, M)
         IN call' = [NoCall EXCEPT !.op = "inverse_transform", !.M = M,
                                   !.inv = v.inv, !.err = v.err]
    /\ UNCHANGED <<Params, attrs, categories_, drop_idx_>>

\* inverse_transform of the matrix transform has just returned
InverseTransformOut ==
    /\ call.op = "transform"
    /\ call.err.kind = ""
    /\ LET M == toarray(call.out)
           v == inverse_transform(attrs, categories_, drop_idx_, handle_unknown, M)
       IN call' = [call EXCEPT !.op = "inverse_transform", !.M = M,
                               !.inv = v.inv, !.err = v.err]
    /\ UNCHANGED <<Params, attrs, categories_, drop_idx_>>

\* the names the caller passes for the input columns
FeatureNames == {"f", "g"}
InputFeatures ==
    {NoFeatures} \cup {Features(l) : l \in UNION {[1..c -> FeatureNames] : c \in 1..MaxCols}}

GetFeatureNames ==
    /\ call.op = ""
    /\ \E f \in InputFeatures :
         LET n == get_feature_names(attrs, categories_, drop_idx_, f)
         IN call' = [NoCall EXCEPT !.op = "get_feature_names", !.input_features = f,
                                   !.names = n.names, !.err = n.err]
    /\ UNCHANGED <<Params, attrs, categories_, drop_idx_>>

Next == Fit \/ FitTransform \/ Transform \/ InverseTransform
        \/ InverseTransformOut \/ GetFeatureNames \/ Return

Spec == Init /\ [][Next]_vars

(***************************************************************************)
(* afsklearn.random_projection.johnson_lindenstrauss_min_dim, a function   *)
(* of the module that touches no encoder.  eps is counted in tenths (5 is  *)
(* 0.5) and logarithms in thousandths.                                     *)
(***************************************************************************)
\* np.log(n) for n > 0, in thousandths, rounded down
log_milli(n) ==
    CASE n = 1 -> 0    [] n = 2 -> 693  [] n = 3 -> 1098 [] n = 4 -> 1386
      [] n = 5 -> 1609 [] n = 6 -> 1791 [] n = 7 -> 1945 [] n = 8 -> 2079

\* np.any(a): some element is non-zero
np_any(a) == \E k \in DOMAIN a.v : a.v[k] # 0

\* line 122: np.any(n_samples) <= 0 compares the boolean np.any returns with 0
n_samples_rejected(n_samples) == (IF np_any(n_samples) THEN 1 ELSE 0) <= 0

\* line 119: np.any(eps <= 0.0) or np.any(eps >= 1)
eps_rejected(eps) == \E k \in DOMAIN eps.v : eps.v[k] <= 0 \/ eps.v[k] >= 10

\* numpy broadcasting of two arrays of at most one dimension
broadcastable(a, b) == Len(a.v) = Len(b.v) \/ Len(a.v) = 1 \/ Len(b.v) = 1
broadcast(a, k) == IF Len(a.v) = 1 THEN a.v[1] ELSE a.v[k]

\* lines 128-129 for one element: 4 * log(n) / (eps^2 / 2 - eps^3 / 3) cast to
\* int64.  With e = 10 * eps the denominator is (15 e^2 - e^3) / 3000.  For
\* n <= 0 the logarithm is nan or -inf and the cast is undefined: nan_cast is
\* the value the platform gives it
component(n, e, nan_cast) ==
    IF n <= 0 THEN [cast |-> nan_cast, v |-> 0]
    ELSE [cast |-> "exact",
          v |-> (4 * log_milli(n) * 3000) \div ((15 * e * e - e * e * e) * 1000)]

\* what astype(np.int64) makes of nan and -inf: INT64_MIN (x86) or 0 (ARM)
NanCasts == {"INT64_MIN", "zero"}

johnson_lindenstrauss_min_dim(n_samples, eps, nan_cast) ==
    IF eps_rejected(eps)
    THEN [err |-> Err("ValueError", "eps in ]0, 1["), n_components |-> NoArray]
    ELSE IF n_samples_rejected(n_samples)
    THEN [err |-> Err("ValueError", "n_samples greater than zero"),
          n_components |-> NoArray]
    ELSE IF ~broadcastable(n_samples, eps)
    THEN [err |-> Err("ValueError", "operands could not be broadcast"),
          n_components |-> NoArray]
    ELSE LET len == Max({Len(n_samples.v), Len(eps.v)})
         IN [err |-> NoErr,
             n_components |->
                 [ndim |-> Max({n_samples.ndim, eps.ndim}),
                  v |-> [k \in 1..len |->
                           component(broadcast(n_samples, k), broadcast(eps, k),
                                     nan_cast)]]]

\* the arguments a caller passes: a number, or a list of one to MaxLen numbers
ArraysOver(S) ==
    {Scalar(x) : x \in S} \cup {Array(l) : l \in UNION {[1..n -> S] : n \in 1..MaxLen}}

SampleCounts == ArraysOver((0 - MaxSamples)..MaxSamples)
EpsValues == ArraysOver({-1, 0, 1, 5, 9} \cup 10..MaxEpsTenths)

JohnsonLindenstraussMinDim ==
    /\ call.op = ""
    /\ \E n_samples \in SampleCounts, eps \in EpsValues, nan_cast \in NanCasts :
         LET r == johnson_lindenstrauss_min_dim(n_samples, eps, nan_cast)
         IN call' = [NoCall EXCEPT !.op = "johnson_lindenstrauss_min_dim",
                                   !.n_samples = n_samples, !.eps = eps,
                                   !.n_components = r.n_components, !.err = r.err]
    /\ UNCHANGED <<Params, attrs, categories_, drop_idx_>>

\* no encoder is involved: one is constructed with the defaults and left alone
InitJL ==
    /\ categories = [kind |-> "auto", lists |-> <<>>]
    /\ drop = [kind |-> "None", arr |-> <<>>]
    /\ handle_unknown = "error"
    /\ attrs = {}
    /\ categories_ = <<>>
    /\ drop_idx_ = NoDropIdx
    /\ call = NoCall

NextJL == JohnsonLindenstraussMinDim \/ Return

SpecJL == InitJL /\ [][NextJL]_vars

(***************************************************************************)
(* Vocabulary of the properties: what the fitted state says about a table  *)
(* and about a returned matrix, stated without the encoder's operators.    *)
(***************************************************************************)
Known(v, cats) == \E k \in DOMAIN cats : cats[k] = v
PosIn(v, cats) == Min({k \in DOMAIN cats : cats[k] = v}) - 1

AllKnown(X) ==
    /\ Len(X[1]) = Len(categories_)
    /\ \A r \in DOMAIN X : \A i \in DOMAIN categories_ : Known(X[r][i], categories_[i])

\* a fit call has completed on this encoder
Fitted == "drop_idx_" \in attrs

HasDrop(i) == ~drop_idx_.isNone /\ i \in DOMAIN drop_idx_.arr /\ drop_idx_.arr[i] # None
Width(i) == IF HasDrop(i) THEN Len(categories_[i]) - 1 ELSE Len(categories_[i])

RECURSIVE Offset(_)
Offset(i) == IF i = 1 THEN 0 ELSE Offset(i - 1) + Width(i - 1)

TotalWidth == Offset(Len(categories_) + 1)

\* the column indices stored for row r of a CSR matrix, in storage order
RowEntries(out, r) ==
    [k \in 1..(out.indptr[r + 1] - out.indptr[r]) |-> out.indices[out.indptr[r] + k]]

Returned(op) == call.op = op /\ call.err.kind = ""
RoundTrip == call.op = "inverse_transform" /\ call.X # <<>>

(***************************************************************************)
(* C1. With drop=None (either handle_unknown), on an encoder a fit has     *)
(* completed on, a table whose values all belong to the fitted category    *)
(* sets is transformed without error, and inverse_transform of the result  *)
(* returns the table cell for cell.                                        *)
(***************************************************************************)
C1_RoundTripNoDrop ==
    (drop.kind = "None" /\ Fitted) =>
        /\ (call.op = "transform" /\ AllKnown(call.X)) => call.err.kind = ""
        /\ (RoundTrip /\ AllKnown(call.X)) =>
              (call.err.kind = "" /\ call.inv = call.X)

C1_Witness ==
    /\ drop.kind = "None" /\ Fitted /\ RoundTrip /\ AllKnown(call.X)
    /\ Len(call.X) = 2 /\ Len(call.X[1]) = 2
    /\ call.X[1] # call.X[2]
    /\ call.inv = call.X

(***************************************************************************)
(* C2. With a drop policy other than None and handle_unknown="ignore",     *)
(* fit and fit_transform raise the ValidationError of the keyword check,   *)
(* whatever the table holds, and the encoder never gets a fitted           *)
(* attribute.                                                              *)
(***************************************************************************)
C2_DropWithIgnoreRejected ==
    (drop.kind # "None" /\ handle_unknown = "ignore") =>
        /\ attrs = {} /\ categories_ = <<>> /\ drop_idx_ = NoDropIdx
        /\ call.op \in {"fit", "fit_transform"} =>
              /\ call.err.kind = "ValidationError"
              /\ call.err.msg = "drop with handle_unknown"
              /\ call.out = NoOut

C2_Witness ==
    /\ drop.kind = "array" /\ handle_unknown = "ignore"
    /\ call.op = "fit_transform" /\ Len(call.X) = 2
    /\ call.err.kind = "ValidationError"

(***************************************************************************)
(* C3. On an encoder holding category sets, transform returns a matrix     *)
(* only if the table has one column per category set and, under            *)
(* handle_unknown="error", only known values.  A column-count mismatch     *)
(* raises ShapeError, whatever the cells hold; under "error" a table of    *)
(* the right shape with an unseen value raises UnknownCategoryError naming *)
(* the first column that holds one.  Neither returns an output.            *)
(***************************************************************************)
UnknownCols(X) ==
    {i \in DOMAIN categories_ : \E r \in DOMAIN X : ~Known(X[r][i], categories_[i])}

C3_TransformErrors ==
    (call.op = "transform" /\ attrs # {}) =>
        /\ call.err.kind = "" =>
              /\ Len(call.X[1]) = Len(categories_)
              /\ handle_unknown = "error" => AllKnown(call.X)
        /\ Len(call.X[1]) # Len(categories_) =>
              /\ call.err.kind = "ShapeError"
              /\ call.out = NoOut
        /\ (/\ handle_unknown = "error"
            /\ Len(call.X[1]) = Len(categories_)
            /\ ~AllKnown(call.X)) =>
              /\ call.err.kind = "UnknownCategoryError"
              /\ call.err.col = Min(UnknownCols(call.X)) - 1
              /\ call.err.vals =
                    {call.X[r][call.err.col + 1] : r \in DOMAIN call.X}
                       \ Range(categories_[call.err.col + 1])
              /\ call.out = NoOut

\* an unseen value in the second column only, and a mismatch that hides one
C3_Witness ==
    /\ call.op = "transform" /\ handle_unknown = "error"
    /\ call.err.kind = "UnknownCategoryError" /\ call.err.col = 1
    /\ Len(call.X) = 2

C3_WitnessShape ==
    /\ call.op = "transform" /\ handle_unknown = "error" /\ Fitted
    /\ call.err.kind = "ShapeError"
    /\ Len(categories_) = 2
    /\ ~Known(call.X[1][1], categories_[1])

(***************************************************************************)
(* C4. Under handle_unknown="ignore", in every row of a matrix transform   *)
(* returns, the block of a column whose cell is unseen holds no entry, and *)
(* the block of a column whose cell is known holds exactly the entry of    *)
(* that cell's category: what a row holds in one column's block does not   *)
(* depend on the cells of the other columns.                               *)
(***************************************************************************)
BlockEntries(out, r, i) ==
    {k \in DOMAIN RowEntries(out, r) :
        /\ RowEntries(out, r)[k] >= Offset(i)
        /\ RowEntries(out, r)[k] < Offset(i) + Width(i)}

C4_UnknownIgnored ==
    (Returned("transform") /\ handle_unknown = "ignore") =>
        \A r \in DOMAIN call.X : \A i \in DOMAIN categories_ :
            LET block == BlockEntries(call.out, r, i)
                v == call.X[r][i]
            IN IF Known(v, categories_[i])
               THEN /\ Cardinality(block) = 1
                    /\ \A k \in block :
                          RowEntries(call.out, r)[k] = Offset(i) + PosIn(v, categories_[i])
               ELSE block = {}

C4_Witness ==
    /\ Returned("transform") /\ handle_unknown = "ignore"
    /\ Len(categories_) = 2 /\ Len(call.X) = 2
    /\ ~Known(call.X[1][1], categories_[1]) /\ Known(call.X[1][2], categories_[2])
    /\ Known(call.X[2][1], categories_[1]) /\ ~Known(call.X[2][2], categories_[2])
    /\ call.out.indptr = <<0, 1, 2>>

(***************************************************************************)
(* The matrix a table is expected to encode to, given the category sets    *)
(* and, per column, the index D[i] of the category left out (None: no      *)
(* category is left out).                                                  *)
(***************************************************************************)
ExpWidth(D, i) == IF D[i] # None THEN Len(categories_[i]) - 1 ELSE Len(categories_[i])

RECURSIVE ExpOffset(_, _)
ExpOffset(D, i) == IF i = 1 THEN 0 ELSE ExpOffset(D, i - 1) + ExpWidth(D, i - 1)

ExpRetained(D, v, i) == Known(v, categories_[i]) /\ PosIn(v, categories_[i]) # D[i]

ExpIndex(D, v, i) ==
    LET p == PosIn(v, categories_[i])
    IN ExpOffset(D, i) + (IF D[i] # None /\ p > D[i] THEN p - 1 ELSE p)

RECURSIVE ExpRow(_, _, _)
ExpRow(D, row, i) ==
    IF i > Len(row) THEN <<>>
    ELSE (IF ExpRetained(D, row[i], i) THEN <<ExpIndex(D, row[i], i)>> ELSE <<>>)
         \o ExpRow(D, row, i + 1)

Encodes(out, X, D) ==
    /\ out.shape = <<Len(X), ExpOffset(D, Len(categories_) + 1)>>
    /\ \A r \in DOMAIN X : RowEntries(out, r) = ExpRow(D, X[r], 1)

ReturnedMatrix == call.op \in {"transform", "fit_transform"} /\ call.err.kind = ""

(***************************************************************************)
(* C5. With drop="first" every drop index is 0, a completed fit stores one *)
(* per category set, and every column of a returned matrix is one narrower *)
(* than its category set, a single-category column taking no width: the    *)
(* matrix has sum(len(categories_[i]) - 1) columns and holds the table     *)
(* encoded with the first category of every column left out.               *)
(***************************************************************************)
FirstDrops == [i \in DOMAIN categories_ |-> 0]

C5_DropFirst ==
    drop.kind = "first" =>
        /\ Fitted => (~drop_idx_.isNone /\ \A i \in DOMAIN drop_idx_.arr : drop_idx_.arr[i] = 0)
        /\ Returned("fit") => Len(drop_idx_.arr) = Len(categories_)
        /\ ReturnedMatrix =>
              /\ call.out.shape[2] =
                    SumSeq([i \in DOMAIN categories_ |-> Len(categories_[i]) - 1])
              /\ Encodes(call.out, call.X, FirstDrops)

C5_Witness ==
    /\ drop.kind = "first" /\ Returned("transform")
    /\ Len(categories_) = 2
    /\ Len(categories_[1]) = 1 /\ Len(categories_[2]) = 3
    /\ call.out.shape = <<2, 2>>
    /\ call.out.indptr = <<0, 1, 2>>

(***************************************************************************)
(* C6. With drop="if_binary" a completed fit stores drop index 0 for       *)
(* exactly the columns with two categories and None for every other; a     *)
(* returned matrix gives a two-category column one output column and every *)
(* other column its full width, its cells encoded as with drop=None.       *)
(***************************************************************************)
BinaryDrops == [i \in DOMAIN categories_ |-> IF Len(categories_[i]) = 2 THEN 0 ELSE None]

C6_DropIfBinary ==
    drop.kind = "if_binary" =>
        /\ Returned("fit") => drop_idx_ = [isNone |-> FALSE, arr |-> BinaryDrops]
        /\ Fitted => \A i \in DOMAIN categories_ :
                        /\ i \in DOMAIN drop_idx_.arr
                        /\ drop_idx_.arr[i] = BinaryDrops[i]
                        /\ Width(i) = IF Len(categories_[i]) = 2 THEN 1
                                      ELSE Len(categories_[i])
        /\ ReturnedMatrix => Encodes(call.out, call.X, BinaryDrops)

C6_Witness ==
    /\ drop.kind = "if_binary" /\ Returned("transform")
    /\ Len(categories_) = 2
    /\ Len(categories_[1]) = 2 /\ Len(categories_[2]) = 3
    /\ call.out.shape = <<2, 4>>
    /\ RowEntries(call.out, 1) = <<0, 3>>
    /\ RowEntries(call.out, 2) = <<1>>

(***************************************************************************)
(* C7. With an explicit drop list, a fit that completes stores, for every  *)
(* column, the index of the column's drop value in its category set (NaN   *)
(* found at the NaN category).  When the list has one value per column and *)
(* some are absent from their category sets, fit raises one                *)
(* ValidationError listing every absent (column, value) pair in column     *)
(* order, and drop_idx_ is left as it was.                                 *)
(***************************************************************************)
AbsentDrops(cats_) ==
    LET Absent(i) == ~Known(drop.arr[i], cats_[i])
        cols == {i \in DOMAIN drop.arr : Absent(i)}
        RECURSIVE List(_)
        List(i) == IF i > Len(drop.arr) THEN <<>>
                   ELSE (IF i \in cols THEN << <<i - 1, drop.arr[i]>> >> ELSE <<>>)
                        \o List(i + 1)
    IN List(1)

C7_Step ==
    (call'.op = "fit" /\ call.op = "" /\ drop.kind = "array"
       /\ call'.err.msg \in {"", "missing drops"}) =>
        LET cats_ == categories_'
        IN /\ Len(drop.arr) = Len(cats_)
           /\ IF AbsentDrops(cats_) = <<>>
              THEN /\ call'.err.kind = ""
                   /\ drop_idx_' = [isNone |-> FALSE,
                                    arr |-> [i \in DOMAIN cats_ |->
                                               PosIn(drop.arr[i], cats_[i])]]
              ELSE /\ call'.err.kind = "ValidationError"
                   /\ call'.err.pairs = AbsentDrops(cats_)
                   /\ drop_idx_' = drop_idx_
                   /\ ("drop_idx_" \in attrs') = ("drop_idx_" \in attrs)

C7_ExplicitDrop == [][C7_Step]_vars

\* both columns name an absent value; a NaN drop value found at the NaN category
C7_Witness ==
    /\ call.op = "fit" /\ drop.kind = "array"
    /\ call.err.msg = "missing drops"
    /\ Len(call.err.pairs) = 2

C7_WitnessNaN ==
    /\ Returned("fit") /\ drop.kind = "array"
    /\ Len(drop.arr) = 2 /\ drop.arr[2] = NaN
    /\ drop_idx_.arr[2] = 1

(***************************************************************************)
(* C8. A matrix returned for an n-row table has n + 1 row pointers, the    *)
(* first 0, non-decreasing; row r spans as many entries as it has cells    *)
(* that are known and are not the dropped category of their column; there  *)
(* are row_pointers[n] column indices and as many values, each 1.          *)
(***************************************************************************)
Retained(row, i) ==
    /\ Known(row[i], categories_[i])
    /\ ~(HasDrop(i) /\ PosIn(row[i], categories_[i]) = drop_idx_.arr[i])

C8_CsrLayout ==
    ReturnedMatrix =>
        LET out == call.out
            n == Len(call.X)
        IN /\ Len(out.indptr) = n + 1
           /\ out.indptr[1] = 0
           /\ \A r \in 1..n :
                 /\ out.indptr[r] <= out.indptr[r + 1]
                 /\ out.indptr[r + 1] - out.indptr[r] =
                       Cardinality({i \in DOMAIN call.X[r] : Retained(call.X[r], i)})
           /\ Len(out.indices) = out.indptr[n + 1]
           /\ Len(out.data) = out.indptr[n + 1]
           /\ \A k \in DOMAIN out.data : out.data[k] = 1

C8_Witness ==
    /\ Returned("transform") /\ drop.kind = "array"
    /\ Len(call.X) = 2 /\ Len(call.X[1]) = 2
    /\ call.out.indptr = <<0, 2, 3>>

(***************************************************************************)
(* C9. In every returned matrix the column indices of a row are strictly   *)
(* ascending, and the k-th of them lies in the block                       *)
(* [offset_i, offset_i + width_i) of the k-th column i whose cell is       *)
(* retained in that row.                                                   *)
(***************************************************************************)
RetainedCols(row) ==
    LET Test(i) == Retained(row, i)
    IN SelectSeq([i \in DOMAIN row |-> i], Test)

C9_SortedInBlock ==
    ReturnedMatrix =>
        \A r \in DOMAIN call.X :
            LET e == RowEntries(call.out, r)
                cols == RetainedCols(call.X[r])
            IN /\ \A k \in 1..(Len(e) - 1) : e[k] < e[k + 1]
               /\ Len(e) = Len(cols)
               /\ \A k \in DOMAIN e :
                     /\ Offset(cols[k]) <= e[k]
                     /\ e[k] < Offset(cols[k]) + Width(cols[k])

(***************************************************************************)
(* C10. On an encoder a fit has completed on, inverse_transform raises     *)
(* ShapeError exactly when the matrix's column count differs from the sum  *)
(* of the columns' widths (len(categories_[i]) - 1 for a column with a     *)
(* drop index, len(categories_[i]) otherwise); a matrix transform returns  *)
(* has that column count and is not rejected for its shape.                *)
(***************************************************************************)
C10_InverseShape ==
    Fitted =>
        /\ call.op = "inverse_transform" =>
              (call.err.kind = "ShapeError") = (Len(call.M[1]) # TotalWidth)
        /\ ReturnedMatrix => call.out.shape[2] = TotalWidth
        /\ RoundTrip => call.err.kind # "ShapeError"

(***************************************************************************)
(* Where C9 and C10 fail.  fit assigns categories_ before drop_idx_ and a  *)
(* fit that raises in between leaves the new category sets beside the old  *)
(* drop indices.  Both properties hold in every state whose drop indices   *)
(* fit the category sets, which is what every completed fit leaves.        *)
(***************************************************************************)
DropIdxFitsCategories ==
    \/ drop_idx_.isNone
    \/ /\ Len(drop_idx_.arr) = Len(categories_)
       /\ \A i \in DOMAIN categories_ :
             drop_idx_.arr[i] = None \/ drop_idx_.arr[i] < Len(categories_[i])

CompletedFitIsConsistent == Returned("fit") => DropIdxFitsCategories

SortedInBlockWhenConsistent == DropIdxFitsCategories => C9_SortedInBlock

InverseShapeWhenConsistent == DropIdxFitsCategories => C10_InverseShape

(***************************************************************************)
(* Vocabulary of the inverse_transform properties: the sub-block of the    *)
(* supplied matrix that belongs to input column i.                         *)
(***************************************************************************)
RightWidth == call.op = "inverse_transform" /\ Len(call.M[1]) = TotalWidth

Block(row, i) == SubSeq(row, Offset(i) + 1, Offset(i) + Width(i))

ZeroBlock(row, i) == \A k \in DOMAIN Block(row, i) : Block(row, i)[k] = 0

(***************************************************************************)
(* C11. Under handle_unknown="error", on an encoder a fit has completed    *)
(* on, inverse_transform of a matrix of the right width raises             *)
(* InversionError and returns no table whenever some row's sub-block is    *)
(* all zero for a column without a drop index: any column under drop=None, *)
(* and a column that drop="if_binary" left with the index None.            *)
(***************************************************************************)
C11_InversionError ==
    (/\ Fitted /\ RightWidth /\ handle_unknown = "error"
     /\ \E i \in DOMAIN categories_ : \E r \in DOMAIN call.M :
           ~HasDrop(i) /\ ZeroBlock(call.M[r], i)) =>
        /\ call.err.kind = "InversionError"
        /\ call.inv = <<>>

\* the part of C11 about drop=None
C11_InversionErrorNoDrop == drop.kind = "None" => C11_InversionError

\* the part of C11 about if_binary, in states a completed fit leaves
C11_InversionErrorIfBinary ==
    (drop.kind = "if_binary" /\ DropIdxFitsCategories) => C11_InversionError

(***************************************************************************)
(* C12. Under handle_unknown="ignore", on an encoder a fit has completed   *)
(* on, inverse_transform of a matrix of the right width never raises:      *)
(* every cell whose sub-block is all zero comes back as None, and every    *)
(* other cell as the category at the first position of its sub-block's     *)
(* maximal entry.                                                          *)
(***************************************************************************)
FirstMax(block) ==
    CHOOSE k \in DOMAIN block :
        /\ \A l \in DOMAIN block : block[l] <= block[k]
        /\ \A l \in 1..(k - 1) : block[l] < block[k]

C12_IgnoreInverse ==
    (Fitted /\ RightWidth /\ handle_unknown = "ignore") =>
        /\ call.err.kind = ""
        /\ Len(call.inv) = Len(call.M)
        /\ \A r \in DOMAIN call.M :
              /\ Len(call.inv[r]) = Len(categories_)
              /\ \A i \in DOMAIN categories_ :
                    call.inv[r][i] =
                        IF ZeroBlock(call.M[r], i) THEN None
                        ELSE categories_[i][FirstMax(Block(call.M[r], i))]

\* one row with an all-zero block beside a block with two maximal entries
C12_Witness ==
    /\ Fitted /\ RightWidth /\ handle_unknown = "ignore"
    /\ Len(categories_) = 2 /\ Len(categories_[1]) = 1 /\ Len(categories_[2]) = 2
    /\ call.M = << <<0, 1, 1>>, <<1, 0, 0>> >>
    /\ call.inv = << <<None, categories_[2][1]>>, <<categories_[1][1], None>> >>

(***************************************************************************)
(* C13. A transform, inverse_transform or get_feature_names call, whether  *)
(* it returns or raises, leaves the attributes, categories_ and drop_idx_  *)
(* as they were (the None entries of drop_idx_ stay None), and its result  *)
(* is the one the same call gives on the state it leaves: by induction     *)
(* over any sequence of such calls, each result is the one the call gives  *)
(* on the state the fit left.                                              *)
(***************************************************************************)
C13_Step ==
    call'.op \in {"transform", "inverse_transform", "get_feature_names"} =>
        /\ attrs' = attrs
        /\ categories_' = categories_
        /\ drop_idx_' = drop_idx_
        /\ call'.op = "transform" =>
              LET t == transform(attrs', categories_', drop_idx_', handle_unknown, call'.X)
              IN call'.out = t.out /\ call'.err = t.err
        /\ call'.op = "inverse_transform" =>
              LET v == inverse_transform(attrs', categories_', drop_idx_',
                                         handle_unknown, call'.M)
              IN call'.inv = v.inv /\ call'.err = v.err
        /\ call'.op = "get_feature_names" =>
              LET n == get_feature_names(attrs', categories_', drop_idx_',
                                         call'.input_features)
              IN call'.names = n.names /\ call'.err = n.err

C13_ReadOnly == [][C13_Step]_vars

\* transform has returned on a fitted state whose drop_idx_ holds a None entry
C13_Witness ==
    /\ Returned("transform") /\ drop.kind = "if_binary"
    /\ Len(categories_) = 2 /\ Len(call.X) = 2
    /\ drop_idx_.arr = <<None, 0>>
    /\ call.out.shape = <<2, 2>>

(***************************************************************************)
(* Vocabulary of the fit properties.                                       *)
(***************************************************************************)
\* ascending (repeats allowed) with NaN, if present, only in the last position
SortedNaNLast(cats) ==
    \A k \in 1..(Len(cats) - 1) :
        /\ ~is_scalar_nan(cats[k])
        /\ is_scalar_nan(cats[k + 1]) \/ cats[k] <= cats[k + 1]

FitStep == call.op = "" /\ call'.op \in {"fit", "fit_transform"}

KeywordsAccepted == ~(drop.kind # "None" /\ handle_unknown = "ignore")

\* the values of column i of X that the supplied list i does not hold
Unlisted(X, i) == {X[r][i] : r \in DOMAIN X} \ Range(categories.lists[i])

\* fit gets as far as examining column i: the keywords and the shape are
\* accepted and every column before i passes its checks
Examined(X, i) ==
    /\ KeywordsAccepted
    /\ Len(categories.lists) = Len(X[1])
    /\ \A h \in 1..(i - 1) :
          /\ SortedNaNLast(categories.lists[h])
          /\ handle_unknown = "error" => Unlisted(X, h) = {}

(***************************************************************************)
(* C14. With explicitly supplied categories, a fit never completes when a  *)
(* supplied list is not sorted ascending with NaN (if present) last, a     *)
(* list that is sorted but for the place of its NaN included: the column   *)
(* whose list it is raises ValidationError when fit examines it.  Every    *)
(* category set fit stores, supplied or found, is sorted ascending with    *)
(* NaN last.                                                               *)
(***************************************************************************)
C14_Step ==
    /\ \A i \in DOMAIN categories_' : SortedNaNLast(categories_'[i])
    /\ (FitStep /\ categories.kind = "list") =>
          \A i \in DOMAIN categories.lists :
              ~SortedNaNLast(categories.lists[i]) =>
                  /\ call'.err.kind # ""
                  /\ Examined(call'.X, i) =>
                        /\ call'.err.kind = "ValidationError"
                        /\ call'.err.msg = "unsorted categories"
                        /\ call'.err.col = i - 1

C14_UnsortedRejected == [][C14_Step]_vars

\* the second column's list is sorted but for its NaN, and raises
C14_Witness ==
    /\ call.op = "fit" /\ categories.kind = "list"
    /\ Len(categories.lists) = 2 /\ categories.lists[2] = <<NaN, 1>>
    /\ call.err.kind = "ValidationError" /\ call.err.msg = "unsorted categories"
    /\ call.err.col = 1

(***************************************************************************)
(* C15. On an encoder a fit has completed on, get_feature_names raises     *)
(* when the input_features list has not one name per fitted column, and    *)
(* otherwise returns one string per output column of transform, in         *)
(* output-column order: the string at the output column of (input column   *)
(* i, category t) is "{name_i}_{t}", name_i being x0, x1, ... by default,  *)
(* and the dropped category of a column has no string.                     *)
(***************************************************************************)
InputName(f, i) == IF f.isNone THEN "x" \o ToString(i - 1) ELSE f.list[i]

\* the output column of the k-th category of input column i (None: dropped)
OutputColumn(i, k) ==
    LET c == k - 1
        d == IF HasDrop(i) THEN drop_idx_.arr[i] ELSE None
    IN IF d # None /\ c = d THEN None
       ELSE Offset(i) + (IF d # None /\ c > d THEN c - 1 ELSE c)

C15_FeatureNames ==
    (call.op = "get_feature_names" /\ Fitted) =>
        LET f == call.input_features
        IN IF ~f.isNone /\ Len(f.list) # Len(categories_)
           THEN call.err.kind = "ValueError" /\ call.names = <<>>
           ELSE /\ call.err.kind = ""
                /\ Len(call.names) = TotalWidth
                /\ \A i \in DOMAIN categories_ : \A k \in DOMAIN categories_[i] :
                      OutputColumn(i, k) # None =>
                          call.names[OutputColumn(i, k) + 1] =
                              InputName(f, i) \o "_" \o str(categories_[i][k])

\* C15 in the states where drop_idx_ fits categories_
FeatureNamesWhenConsistent == DropIdxFitsCategories => C15_FeatureNames

(***************************************************************************)
(* C16. After every fit that completes, with categories="auto" or with     *)
(* supplied lists, the elements of every category set are pairwise         *)
(* distinct: a supplied list with a repeated value is never stored.        *)
(***************************************************************************)
Distinct(cats) == \A k, l \in DOMAIN cats : cats[k] = cats[l] => k = l

FitCompleted == Returned("fit") \/ Returned("fit_transform")

C16_DistinctCategories ==
    FitCompleted => \A i \in DOMAIN categories_ : Distinct(categories_[i])

\* the part of C16 about categories="auto"
C16_DistinctAuto == categories.kind = "auto" => C16_DistinctCategories

(***************************************************************************)
(* C17. A fit with supplied category lists that passes the keyword check   *)
(* raises ShapeError when the number of lists differs from the table's     *)
(* column count, before any column is examined (categories_ is not even    *)
(* reset).  Under handle_unknown="error" the column fit examines raises    *)
(* UnknownCategoryError, naming its index and the values its (sorted) list *)
(* does not hold, when the data holds such values.  Under "ignore" such    *)
(* values do not make fit fail: fit completes whenever the shape matches   *)
(* and the lists are sorted.                                               *)
(***************************************************************************)
C17_Step ==
    (FitStep /\ categories.kind = "list" /\ KeywordsAccepted) =>
        LET X == call'.X
            lists == categories.lists
        IN /\ Len(lists) # Len(X[1]) =>
                 /\ call'.err.kind = "ShapeError"
                 /\ categories_' = categories_
           /\ handle_unknown = "error" =>
                 \A i \in DOMAIN lists :
                     (/\ Examined(X, i) /\ SortedNaNLast(lists[i])
                      /\ Unlisted(X, i) # {}) =>
                         /\ call'.err.kind = "UnknownCategoryError"
                         /\ call'.err.col = i - 1
                         /\ call'.err.vals = Unlisted(X, i)
           /\ (/\ handle_unknown = "ignore" /\ Len(lists) = Len(X[1])
               /\ \A i \in DOMAIN lists : SortedNaNLast(lists[i])) =>
                 /\ call'.err.kind = ""
                 /\ categories_' = lists

C17_FitErrors == [][C17_Step]_vars

\* an unlisted value in the second column only, named by the error
C17_Witness ==
    /\ call.op = "fit" /\ categories.kind = "list" /\ handle_unknown = "error"
    /\ Len(call.X) = 2 /\ Len(call.X[1]) = 2
    /\ call.err.kind = "UnknownCategoryError" /\ call.err.col = 1
    /\ call.err.vals = {2, NaN}

\* under "ignore" a fit completes on data with unlisted values
C17_WitnessIgnore ==
    /\ Returned("fit") /\ categories.kind = "list" /\ handle_unknown = "ignore"
    /\ \E i \in DOMAIN categories.lists : Unlisted(call.X, i) # {}

\* a list count that differs from the column count, on a fitted encoder
C17_WitnessShape ==
    /\ call.op = "fit" /\ call.err.kind = "ShapeError"
    /\ categories_ # <<>>

(***************************************************************************)
(* C18. johnson_lindenstrauss_min_dim raises ValueError and returns no     *)
(* dimension whenever n_samples, or any element of an n_samples array, is  *)
(* not greater than zero (negative values included), and whenever any eps  *)
(* is outside the open interval (0, 1).                                    *)
(***************************************************************************)
JLCalled == call.op = "johnson_lindenstrauss_min_dim"

C18_JLRejects ==
    (/\ JLCalled
     /\ \/ \E k \in DOMAIN call.n_samples.v : call.n_samples.v[k] <= 0
        \/ \E k \in DOMAIN call.eps.v : call.eps.v[k] <= 0 \/ call.eps.v[k] >= 10) =>
        /\ call.err.kind = "ValueError"
        /\ call.n_components = NoArray

\* the part of C18 about eps
C18_JLRejectsEps ==
    (JLCalled /\ \E k \in DOMAIN call.eps.v : call.eps.v[k] <= 0 \/ call.eps.v[k] >= 10) =>
        /\ call.err.kind = "ValueError"
        /\ call.n_components = NoArray

(***************************************************************************)
(* C19. In a matrix transform returns, a known cell with category code c   *)
(* of a column i with drop index d gives no entry if c = d, the entry      *)
(* offset_i + c if c < d and offset_i + c - 1 if c > d, offset_i being the *)
(* sum of the widths of the columns before i; a column without a drop      *)
(* index (all of them under drop=None, and the columns "if_binary" leaves  *)
(* with None) gives offset_i + c and leaves no known cell out.  So every   *)
(* entry lies in the block of its own column.                              *)
(***************************************************************************)
StoredDrops ==
    [i \in DOMAIN categories_ |-> IF HasDrop(i) THEN drop_idx_.arr[i] ELSE None]

\* the mapping of codes to output columns
C19_CodeMapping ==
    (ReturnedMatrix /\ Fitted) => Encodes(call.out, call.X, StoredDrops)

\* the mapping keeps every entry inside its column's block
C19_InOwnBlock ==
    (ReturnedMatrix /\ Fitted) =>
        \A r \in DOMAIN call.X : \A i \in DOMAIN categories_ :
            ExpRetained(StoredDrops, call.X[r][i], i) =>
                /\ Offset(i) <= ExpIndex(StoredDrops, call.X[r][i], i)
                /\ ExpIndex(StoredDrops, call.X[r][i], i) < Offset(i) + Width(i)

C19_DropShift == C19_CodeMapping /\ C19_InOwnBlock

\* C19 in the states where drop_idx_ fits categories_
DropShiftWhenConsistent == DropIdxFitsCategories => C19_DropShift

(***************************************************************************)
(* C20. Under handle_unknown="error", in the table inverse_transform       *)
(* returns for a matrix of the right width, a column i with a drop index d *)
(* holds categories_[i][d] in every row whose sub-block for column i is    *)
(* all zero; a column of effective width zero (one category, dropped) has  *)
(* an empty sub-block in every row, so it holds categories_[i][d]          *)
(* throughout and takes no matrix column: every other cell is decoded from *)
(* the sub-block at its own column's offset, whatever columns of width     *)
(* zero precede it.                                                        *)
(***************************************************************************)
Dropped(i) == categories_[i][drop_idx_.arr[i] + 1]

C20_DroppedRestored ==
    (Fitted /\ RightWidth /\ handle_unknown = "error" /\ Returned("inverse_transform")) =>
        /\ Len(call.inv) = Len(call.M)
        /\ \A r \in DOMAIN call.M :
              /\ Len(call.inv[r]) = Len(categories_)
              /\ \A i \in DOMAIN categories_ :
                    /\ (HasDrop(i) /\ ZeroBlock(call.M[r], i)) =>
                           call.inv[r][i] = Dropped(i)
                    /\ (HasDrop(i) /\ Width(i) = 0) =>
                           /\ Block(call.M[r], i) = <<>>
                           /\ Offset(i + 1) = Offset(i)
                           /\ call.inv[r][i] = Dropped(i)
                    /\ (HasDrop(i) /\ ~ZeroBlock(call.M[r], i)) =>
                           call.inv[r][i] =
                               np_delete(categories_[i], drop_idx_.arr[i])[
                                   FirstMax(Block(call.M[r], i))]
                    /\ (~HasDrop(i) /\ ~ZeroBlock(call.M[r], i)) =>
                           call.inv[r][i] =
                               categories_[i][FirstMax(Block(call.M[r], i))]

\* a column of width zero before a column of width one: the first row's
\* block of the second column is all zero, the second row's is not
C20_Witness ==
    /\ Fitted /\ RightWidth /\ handle_unknown = "error" /\ Returned("inverse_transform")
    /\ Len(categories_) = 2 /\ HasDrop(1) /\ HasDrop(2)
    /\ Len(categories_[1]) = 1 /\ Len(categories_[2]) = 2
    /\ drop_idx_.arr[2] = 1
    /\ call.M = << <<0>>, <<1>> >>
    /\ call.inv = << <<categories_[1][1], categories_[2][2]>>,
                     <<categories_[1][1], categories_[2][1]>> >>

\* on an encoder whose drop indices fit its category sets, with a drop index
\* on every column, the call of C20 returns
DroppedRestoredReturns ==
    (/\ Fitted /\ RightWidth /\ handle_unknown = "error" /\ DropIdxFitsCategories
     /\ \A i \in DOMAIN categories_ : HasDrop(i)) =>
        call.err.kind = ""

(***************************************************************************)
(* C21. With a drop policy (first, if_binary or explicit values) and       *)
(* handle_unknown="error", on an encoder a fit has completed on, a table   *)
(* whose values all belong to the fitted category sets is transformed      *)
(* without error, and inverse_transform of the result returns the table    *)
(* cell for cell: the cells that hold the dropped category and the columns *)
(* of width zero included.                                                 *)
(***************************************************************************)
C21_RoundTripDrop ==
    (drop.kind # "None" /\ handle_unknown = "error" /\ Fitted) =>
        /\ (call.op = "transform" /\ AllKnown(call.X)) => call.err.kind = ""
        /\ (RoundTrip /\ AllKnown(call.X)) =>
              (call.err.kind = "" /\ call.inv = call.X)

\* the round trip on encoders whose drop indices fit their category sets
RoundTripDropWhenConsistent == DropIdxFitsCategories => C21_RoundTripDrop

(***************************************************************************)
(* C22. Whatever fit calls an encoder has been through, raising ones       *)
(* included, its stored fitted state is that of one completed fit:         *)
(* drop_idx_, when not None, has one entry per category set and every      *)
(* entry that is not None is an index into its category set; and a fit     *)
(* that raises leaves the attributes, categories_ and drop_idx_ as they    *)
(* were before the call.                                                   *)
(***************************************************************************)
C22_Step ==
    (FitStep /\ call'.err.kind # "") =>
        /\ attrs' = attrs
        /\ categories_' = categories_
        /\ drop_idx_' = drop_idx_

C22_RaisingFitKeepsState == [][C22_Step]_vars

C22_StoredStateFromOneFit == [](Fitted => DropIdxFitsCategories)

C22_FitAtomic == C22_StoredStateFromOneFit /\ C22_RaisingFitKeepsState

====
